---- MODULE Spec2Model ----
(***************************************************************************)
(* Data reconciliation pipeline of Analysis.py: cell cleaning, row         *)
(* slicing, column renames, alias replacement on the key column, numeric   *)
(* coercion, left merges with the auxiliary tables, derived rates and      *)
(* density, the null diagnostics, exclusion of the ship rows.              *)
(*                                                                         *)
(* A table is a sequence of rows (records).  A cell of a string column is  *)
(* a string; a cell of a numeric column is <<v>> or NaN == <<>> (pandas'   *)
(* NaN / <NA>).  Key strings are real strings, so that replace() and       *)
(* str.strip() are computed character by character.                        *)
(***************************************************************************)
EXTENDS Integers, Sequences, FiniteSets, TLC

VARIABLES
    name, key, tbl, kpc,          \* key reconciler: raw value, current value, alias table, position
    raw_data, global_data,        \* scraped world table and the working table made from it
    country_gdp, country_area,    \* auxiliary tables
    gdp_df_update,                \* the re-imported GDP table
    pc, last,                     \* next step of the world pipeline; the step run last
    base_before, aux_used,        \* operands of the last merge (history)
    hist,                         \* the steps of the world pipeline run so far, in order (history)
    gdp_entry,                    \* the COUNTRY/GDP_PER_CAPITA report written for offline editing
    nan_rows, globalisnull,       \* diagnostic outputs: rows shown with a null; per-column null flags
    gdf1, gdf3, shp_df,           \* shapefile tables (COUNTRY, geometry)
    geo_global_data,              \* the world table with geometry
    gindex, uindex,               \* row labels (the index) of global_data; of us_data
    top_cases,                    \* the leading rows of global_data taken for the charts
    raw_data2, us_data, gdus,     \* scraped US table, working US table, state shapefile table
    upc, ulast,                   \* next step of the US pipeline; the step run last
    us_geodata,                   \* us_data merged with the state shapefile table
    us_headers, us_columns,       \* column names of raw_data2; of us_data
    us_shared,                    \* us_data and raw_data2 name one DataFrame object
    us_before                     \* the frame the last manual override started from (history)

keyVars == <<name, key, tbl, kpc>>
worldVars == <<raw_data, global_data, country_gdp, country_area, gdp_df_update,
               pc, last, base_before, aux_used, hist, gdp_entry, nan_rows, globalisnull,
               gdf1, gdf3, shp_df, geo_global_data, gindex, top_cases>>
geoVars == <<gdf1, gdf3, shp_df, geo_global_data, top_cases>>
outVars == <<gdp_entry, nan_rows, globalisnull>>
usVars == <<raw_data2, us_data, gdus, upc, ulast, us_geodata, us_headers, us_columns,
           us_shared, uindex, us_before>>
vars == <<keyVars, worldVars, usVars>>

-----------------------------------------------------------------------------
(* Strings *)

\* str.replace(c, '') / DataFrame.replace(c, '', regex=True): every occurrence of c removed
RECURSIVE RemoveChar(_, _)
RemoveChar(s, c) ==
    IF s = "" THEN ""
    ELSE IF Head(s) = c THEN RemoveChar(Tail(s), c)
         ELSE Head(s) \o RemoveChar(Tail(s), c)

RECURSIVE LStrip(_, _)
LStrip(s, chars) ==
    IF s = "" THEN ""
    ELSE IF Head(s) \in chars THEN LStrip(Tail(s), chars) ELSE s

RECURSIVE RStrip(_, _)
RStrip(s, chars) ==
    IF s = "" THEN ""
    ELSE IF SubSeq(s, Len(s), Len(s)) \in chars
         THEN RStrip(SubSeq(s, 1, Len(s) - 1), chars) ELSE s

\* Python's str.strip(chars): leading and trailing characters of the set removed
StripChars(s, chars) == RStrip(LStrip(s, chars), chars)

Whitespace == {" ", "\t", "\n", "\r"}

\* Series.str.strip(): surrounding whitespace removed
StrStrip(s) == StripChars(s, Whitespace)

-----------------------------------------------------------------------------
(* Key reconciler: Series.replace(src, dst), one call per alias, in code order *)

\* (variant: str.replace semantics, a leading occurrence of src is rewritten)
ReplaceLeading(v, src, dst) ==
    IF Len(v) >= Len(src) /\ SubSeq(v, 1, Len(src)) = src
    THEN dst \o SubSeq(v, Len(src) + 1, Len(v))
    ELSE v

\* Series.replace(src, dst) on one value: the whole value must equal src
Replace(v, src, dst) == IF v = src THEN dst ELSE v

\* (variant: an alias whose canonical value is itself the source of an earlier call)
global_aliases_chained ==
    << <<"USA", "United States">>,
       <<"UK", "United Kingdom">>,
       <<"US", "USA">> >>

\* src/Analysis.py 374-375
global_aliases ==
    << <<"USA", "United States">>,
       <<"UK", "United Kingdom">> >>

\* src/Analysis.py 477-492
area_aliases ==
    << <<"United Arab Emirates", "UAE">>,
       <<"State of Palestine", "Palestine">>,
       <<"Republic of North Macedonia", "North Macedonia">>,
       <<"South Korea", "S. Korea">>,
       <<"Côte d'Ivoire", "Ivory Coast">>,
       <<"DR Congo", "DRC">>,
       <<"China Hong Kong SAR", "Hong Kong">>,
       <<"Central African Republic", "CAR">>,
       <<"Turks and Caicos Islands", "Turks and Caicos">>,
       <<"Saint Vincent and the Grenadines", "St. Vincent Grenadines">>,
       <<"Saint Barthélemy", "St. Barth">>,
       <<"Brunei Darussalam", "Brunei">>,
       <<"Wallis and Futuna Islands", "Wallis and Futuna">>,
       <<"China Macao SAR", "Macao">>,
       <<"Holy See", "Vatican City">>,
       <<"Saint Pierre and Miquelon", "Saint Pierre Miquelon">> >>

\* src/Analysis.py 2095-2109
gdf1_aliases ==
    << <<"Russian Federation", "Russia">>,
       <<"Palestinian Territory", "Palestine">>,
       <<"Czech Republic", "Czechia">>,
       <<"United Arab Emirates", "UAE">>,
       <<"South Korea", "S. Korea">>,
       <<"Côte d'Ivoire", "Ivory Coast">>,
       <<"Congo DRC", "DRC">>,
       <<"Central African Republic", "CAR">>,
       <<"Turks and Caicos Islands", "Turks and Caicos">>,
       <<"Saint Vincent and the Grenadines", "St. Vincent Grenadines">>,
       <<"Saint Barthelemy", "St. Barth">>,
       <<"Brunei Darussalam", "Brunei">>,
       <<"Saint Pierre and Miquelon", "Saint Pierre Miquelon">>,
       <<"Curacao", "Curaçao">>,
       <<"Faroe Islands", "Faeroe Islands">> >>

AliasTables == {"global", "area", "gdf1"}

AliasesOf(t) ==
    IF t = "global" THEN global_aliases
    ELSE IF t = "area" THEN area_aliases
    ELSE gdf1_aliases

\* the replace() calls of one table applied to one value, first call first
RECURSIVE ReplaceAll(_, _)
ReplaceAll(v, aliases) ==
    IF aliases = <<>> THEN v
    ELSE ReplaceAll(Replace(v, aliases[1][1], aliases[1][2]), Tail(aliases))

Sources(aliases) == {aliases[i][1] : i \in 1..Len(aliases)}
Targets(aliases) == {aliases[i][2] : i \in 1..Len(aliases)}

\* the canonical value the alias table gives for a source spelling
Canonical(aliases, src) ==
    LET i == CHOOSE j \in 1..Len(aliases) : aliases[j][1] = src IN aliases[i][2]

-----------------------------------------------------------------------------
(* The key column of one table, followed value by value through the cells   *)
(* that touch it: the replace() cell, later the str.strip() of the merge    *)
(* cell (global_data 374-375 then 579; country_area 477-492 then 580;       *)
(* gdf1 2095-2109 then 2124).                                               *)

AllAliasNames ==
    UNION {Sources(AliasesOf(t)) \cup Targets(AliasesOf(t)) : t \in AliasTables}

\* spellings that differ from an alias source in case or surrounding whitespace only,
\* and names no table mentions
DriftNames ==
    {"usa", "Usa", "uk", "USA ", " USA", " UK ", "UK\n", "United States ",
     "south korea", "South Korea ", " Holy See", "holy see", "Czech republic",
     "France", " France", "Diamond Princess", ""}

KeyNames == AllAliasNames \cup DriftNames

InitKey ==
    /\ name \in KeyNames
    /\ key = name
    /\ tbl \in AliasTables
    /\ kpc = "raw"
    /\ raw_data = <<>> /\ global_data = <<>> /\ country_gdp = <<>>
    /\ country_area = <<>> /\ gdp_df_update = <<>>
    /\ pc = "idle" /\ last = "idle" /\ base_before = <<>> /\ aux_used = <<>>
    /\ hist = <<>> /\ gdp_entry = <<>> /\ nan_rows = <<>> /\ globalisnull = <<>>
    /\ gdf1 = <<>> /\ gdf3 = <<>> /\ shp_df = <<>> /\ geo_global_data = <<>>
    /\ top_cases = <<>>
    /\ gindex = <<>> /\ uindex = <<>>
    /\ raw_data2 = <<>> /\ us_data = <<>> /\ gdus = <<>> /\ us_geodata = <<>>
    /\ us_headers = <<>> /\ us_columns = <<>> /\ us_shared = FALSE
    /\ us_before = <<>>
    /\ upc = "idle" /\ ulast = "idle"

\* the alias cell of table tbl
KeyReplace ==
    /\ kpc = "raw"
    /\ key' = ReplaceAll(key, AliasesOf(tbl))
    /\ kpc' = "replaced"
    /\ UNCHANGED <<worldVars, usVars, name, tbl>>

\* COUNTRY.str.strip() in the merge cell
KeyStrip ==
    /\ kpc = "replaced"
    /\ key' = StrStrip(key)
    /\ kpc' = "stripped"
    /\ UNCHANGED <<worldVars, usVars, name, tbl>>

-----------------------------------------------------------------------------

NextKey ==
    \/ KeyReplace
    \/ KeyStrip

-----------------------------------------------------------------------------
(* Cells and tables *)

\* pandas' missing value in a numeric column; a present number v is <<v>>
NaN == <<>>
Num(v) == <<v>>
IsNum(c) == c # NaN

RECURSIVE RemoveSubstr(_, _)
RemoveSubstr(s, sub) ==
    IF Len(s) < Len(sub) THEN s
    ELSE IF SubSeq(s, 1, Len(sub)) = sub
         THEN RemoveSubstr(SubSeq(s, Len(sub) + 1, Len(s)), sub)
         ELSE Head(s) \o RemoveSubstr(Tail(s), sub)

DigitChars == <<"0", "1", "2", "3", "4", "5", "6", "7", "8", "9">>
IsDigit(c) == \E d \in 1..10 : DigitChars[d] = c
DigitVal(c) == (CHOOSE d \in 1..10 : DigitChars[d] = c) - 1

RECURSIVE IsDigits(_)
IsDigits(s) == s = "" \/ (IsDigit(Head(s)) /\ IsDigits(Tail(s)))

RECURSIVE ParseDigits(_, _)
ParseDigits(s, acc) ==
    IF s = "" THEN acc ELSE ParseDigits(Tail(s), 10 * acc + DigitVal(Head(s)))

\* a string pd.to_numeric parses: surrounding whitespace is skipped; the sample
\* cells are unsigned decimal integers
Parses(s) == StrStrip(s) # "" /\ IsDigits(StrStrip(s))

\* pd.to_numeric(s, errors='coerce'): the number, NaN for the empty string and
\* for a string that does not parse
ToNumericCoerce(s) == IF Parses(s) THEN Num(ParseDigits(StrStrip(s), 0)) ELSE NaN

\* pd.to_numeric(s): raises on a non-empty string that does not parse
ToNumericRaises(s) == s # "" /\ ~Parses(s)

\* fillna(0)
FillNa(c) == IF c = NaN THEN Num(0) ELSE c

\* f applied to every row of a table
MapRows(t, f(_)) == [i \in 1..Len(t) |-> f(t[i])]

RECURSIVE Concat(_)
Concat(ss) == IF ss = <<>> THEN <<>> ELSE Head(ss) \o Concat(Tail(ss))

\* (variant: only the leading rows dropped)
DropHeadOnly(t, head, tail) == SubSeq(t, head + 1, Len(t))

\* drop(index[[0..head-1]]).reset_index(drop=True), then drop(tail(tail).index):
\* the first head rows go, then the last tail rows of what remains (all of it when
\* it has no more than tail rows)
DropRows(t, head, tail) ==
    LET rest == SubSeq(t, head + 1, Len(t))
        keep == IF Len(rest) > tail THEN Len(rest) - tail ELSE 0
    IN SubSeq(rest, 1, keep)

\* (variant: labels counted from 1)
RangeIndexFrom1(n) == [i \in 1..n |-> i]

\* the default index of a frame of n rows: 0 .. n-1
RangeIndex(n) == [i \in 1..n |-> i - 1]

Keys(t, k) == {t[i][k] : i \in 1..Len(t)}

\* positions of the rows of t that satisfy p, in order
RECURSIVE SelectIdx(_, _, _)
SelectIdx(t, p(_), i) ==
    IF i > Len(t) THEN <<>>
    ELSE (IF p(t[i]) THEN <<i>> ELSE <<>>) \o SelectIdx(t, p, i + 1)

-----------------------------------------------------------------------------
(* DataFrame.merge(aux, on=k, how='left') *)

\* the rows a base row becomes: one per aux row with the same key, in aux order,
\* carrying that row's columns; one row with NaN in the aux columns when none has it
MatchRows(row, aux, k, cols) ==
    LET hits == SelectIdx(aux, LAMBDA a : a[k] = row[k], 1)
    IN IF hits = <<>>
       THEN << row @@ [c \in cols |-> NaN] >>
       ELSE [n \in 1..Len(hits) |-> row @@ [c \in cols |-> aux[hits[n]][c]]]

\* (variant: how='inner', a base row without a partner is dropped)
MergeInner(base, aux, k, cols) ==
    Concat([i \in 1..Len(base) |->
        IF \E j \in 1..Len(aux) : aux[j][k] = base[i][k]
        THEN MatchRows(base[i], aux, k, cols) ELSE <<>>])

\* (variant: how='outer', aux rows without a partner are appended)
MergeOuter(base, aux, k, cols) ==
    Concat([i \in 1..Len(base) |-> MatchRows(base[i], aux, k, cols)])
    \o Concat([j \in 1..Len(aux) |->
        IF aux[j][k] \in Keys(base, k) THEN <<>>
        ELSE << [c \in (IF base = <<>> THEN {k} ELSE DOMAIN base[1]) |->
                    IF c = k THEN aux[j][k] ELSE NaN]
                @@ [c \in cols |-> aux[j][c]] >>])

\* (variant: the aux columns are filled by row position instead of by key)
MergeByPosition(base, aux, k, cols) ==
    [i \in 1..Len(base) |->
        base[i] @@ [c \in cols |-> IF i <= Len(aux) THEN aux[i][c] ELSE NaN]]

Merge(base, aux, k, cols) ==
    Concat([i \in 1..Len(base) |-> MatchRows(base[i], aux, k, cols)])

-----------------------------------------------------------------------------
(* World pipeline: inputs *)

\* numeric columns of global_data that the model carries (cols, line 388; the other
\* five are coerced by the same statements)
cols == {"TOTALCASES", "TOTALDEATHS", "TOTALRECOVERED", "TOTALTESTS", "POPULATION"}

RawRow(c, cases, deaths, recovered, tests, pop) ==
    [COUNTRY |-> c, TOTALCASES |-> cases, TOTALDEATHS |-> deaths,
     TOTALRECOVERED |-> recovered, TOTALTESTS |-> tests, POPULATION |-> pop]

\* number of data rows the scraped tables are drawn with (besides the ship rows)
MaxRows == 2

\* rows dropped at the head and at the tail of the scraped world table
HeadDrop == 8
TailDrop == 8

\* scraped rows as the page gives them: text cells with separators, markers, newlines
SampleRows ==
    { RawRow("USA", "10", "+5", "9", "10,000", "3,000"),
      RawRow("UK", "5", "2", "N/A", "0", "600"),
      RawRow("United States", "70", "", "7", "700", "50"),
      RawRow("USA ", "30", "3", "3", "300", "40"),
      RawRow("\nFrance", "0", "0", "0", "0", "0"),
      RawRow("Diamond Princess ", "5", "+1", "4", "1,500", "") }

ShipRows ==
    << RawRow("Diamond Princess", "712", "13", "699", "", ""),
       RawRow("MS Zaandam", "9", "2", "7", "", "") >>

\* the continent and total rows around the data rows
JunkRow == RawRow("\nTotal:\n", "1,000", "", "", "", "")

SeqsUpTo(S, n) == UNION {[1..m -> S] : m \in 0..n}

SubSeqs(t) == {<<>>, <<t[1]>>, <<t[2]>>, t}

RawTables ==
    { [i \in 1..HeadDrop |-> JunkRow] \o data \o ships \o [i \in 1..TailDrop |-> JunkRow] :
        data \in SeqsUpTo(SampleRows, MaxRows), ships \in SubSeqs(ShipRows) }

GdpRow(c, g) == [COUNTRY |-> c, GDP_PER_CAPITA |-> g]

\* csvGDP.csv after the renames of lines 425-429: an overlapping and a foreign key;
\* two rows for one key and a blank value; a single row
GdpTables ==
    { << GdpRow("United States", Num(60)), GdpRow("United Kingdom", Num(40)),
         GdpRow("Atlantis", Num(5)) >>,
      << GdpRow("United States", Num(60)), GdpRow("United States", Num(61)),
         GdpRow("France", NaN) >>,
      << GdpRow("United States", Num(60000)) >> }

AreaRow(c, a) == [COUNTRY |-> c, LAND_AREA |-> a]

\* the scraped land-area table (text cells)
AreaTables ==
    { << AreaRow(" United States", "3,000"), AreaRow("France", "200 square miles"),
         AreaRow("Holy See", "0") >>,
      << AreaRow("United States", "30"), AreaRow("United States", "31"),
         AreaRow("United Kingdom", "") >>,
      << AreaRow("France", "N/A") >> }

-----------------------------------------------------------------------------
(* World pipeline: steps *)

\* the statements that follow the world pipeline: the chart table (line 1169) and
\* the geographic tables (lines 2062-2245)
geo_cells == << "top_cases", "geocode", "gdf1_alias", "geo_merge", "geo_update3" >>

\* (variant: the land-area names replaced after the land-area merge)
cells_area_alias_late ==
    << "format", "alias", "coerce", "sort", "area_format", "merge_gdp",
       "metrics", "nan_rows", "gdp_entry", "gdp_replace", "exclude", "merge_area",
       "area_alias", "density", "isnull" >> \o geo_cells

\* (variant: the density computed before the land-area merge)
cells_density_first ==
    << "format", "alias", "coerce", "sort", "area_format", "area_alias", "merge_gdp",
       "metrics", "nan_rows", "gdp_entry", "gdp_replace", "exclude", "density",
       "merge_area", "isnull" >> \o geo_cells

\* (variant: the ships dropped before the corrected GDP figures are merged)
cells_exclude_first ==
    << "format", "alias", "coerce", "sort", "area_format", "area_alias", "merge_gdp",
       "metrics", "nan_rows", "gdp_entry", "exclude", "gdp_replace", "merge_area",
       "density", "isnull" >> \o geo_cells

\* (variant: the three rates computed after the last merge)
cells_metrics_last ==
    << "format", "alias", "coerce", "sort", "area_format", "area_alias", "merge_gdp",
       "nan_rows", "gdp_entry", "gdp_replace", "exclude", "merge_area", "metrics",
       "density", "isnull" >> \o geo_cells

\* the statements of the world pipeline in the order the notebook runs them
\* (In[6] .. In[96], lines 325-2245)
cells ==
    << "format", "alias", "coerce", "sort", "area_format", "area_alias", "merge_gdp",
       "metrics", "nan_rows", "gdp_entry", "gdp_replace", "exclude", "merge_area",
       "density", "isnull" >> \o geo_cells

\* the step that follows step in the notebook
Then(step) ==
    LET i == CHOOSE n \in 1..Len(cells) : cells[n] = step
    IN IF i < Len(cells) THEN cells[i + 1] ELSE "done"

\* step has run: it becomes the last step and is appended to the history
Ran(step) == last' = step /\ hist' = Append(hist, step)

Init ==
    /\ raw_data \in RawTables
    /\ global_data = raw_data
    /\ country_gdp \in GdpTables
    /\ country_area \in AreaTables
    /\ gdp_df_update = <<>>
    /\ pc = cells[1]
    /\ last = "scrape"
    /\ base_before = <<>>
    /\ aux_used = <<>>
    /\ hist = <<>> /\ gdp_entry = <<>> /\ nan_rows = <<>> /\ globalisnull = <<>>
    /\ gdf1 = <<>> /\ gdf3 = <<>> /\ shp_df = <<>> /\ geo_global_data = <<>>
    /\ top_cases = <<>>
    /\ gindex = RangeIndex(Len(raw_data)) /\ uindex = <<>>
    /\ name = "" /\ key = "" /\ tbl = "global" /\ kpc = "idle"
    /\ raw_data2 = <<>> /\ us_data = <<>> /\ gdus = <<>> /\ us_geodata = <<>>
    /\ us_headers = <<>> /\ us_columns = <<>> /\ us_shared = FALSE
    /\ us_before = <<>>
    /\ upc = "idle" /\ ulast = "idle"

\* lines 325-328 on one cell: newlines, commas, then surrounding '+'
CleanCell(s) == StripChars(RemoveChar(RemoveChar(s, "\n"), ","), {"+"})

CleanRow(r) == [c \in DOMAIN r |-> CleanCell(r[c])]

\* In[6], lines 325-334: clean every cell, drop the first 8 rows, drop the last 8
\* of what remains; index[[0..7]] raises on a table of fewer than 8 rows
Format ==
    /\ pc = "format"
    /\ Ran("format")
    /\ IF Len(global_data) < HeadDrop
       THEN pc' = "failed" /\ UNCHANGED <<global_data, gindex>>
       ELSE /\ global_data' = DropRows(MapRows(global_data, CleanRow), HeadDrop, TailDrop)
            /\ gindex' = RangeIndex(Len(global_data'))
            /\ pc' = Then("format")
    /\ UNCHANGED <<keyVars, usVars, geoVars, outVars, raw_data, country_gdp, country_area, gdp_df_update, base_before, aux_used>>

\* In[10], lines 374-375
Alias ==
    /\ pc = "alias"
    /\ Ran("alias")
    /\ global_data' = MapRows(global_data,
           LAMBDA r : [r EXCEPT !.COUNTRY = ReplaceAll(@, global_aliases)])
    /\ pc' = Then("alias")
    /\ UNCHANGED <<keyVars, usVars, gindex, geoVars, outVars, raw_data, country_gdp, country_area, gdp_df_update, base_before, aux_used>>

\* lines 393-402 on one numeric cell: to_numeric(errors='coerce'), fillna(0), int
CoerceCell(s) == FillNa(ToNumericCoerce(s))

\* In[12], lines 388-402
Coerce ==
    /\ pc = "coerce"
    /\ Ran("coerce")
    /\ global_data' = MapRows(global_data,
           LAMBDA r : [c \in DOMAIN r |-> IF c \in cols THEN CoerceCell(r[c]) ELSE r[c]])
    /\ pc' = Then("coerce")
    /\ UNCHANGED <<keyVars, usVars, gindex, geoVars, outVars, raw_data, country_gdp, country_area, gdp_df_update, base_before, aux_used>>

InsertAt(t, p, x) == SubSeq(t, 1, p - 1) \o <<x>> \o SubSeq(t, p, Len(t))

\* the orders sort_values(k, ascending=False) can leave: descending in k, rows with
\* equal k in any order (the default sort kind is not stable)
RECURSIVE SortedDesc(_, _)
SortedDesc(t, k) ==
    IF t = <<>> THEN {<<>>}
    ELSE UNION { { InsertAt(a, p, Head(t)) :
                     p \in { q \in 1..Len(a) + 1 :
                               /\ \A i \in 1..q - 1 : a[i][k][1] >= Head(t)[k][1]
                               /\ \A i \in q..Len(a) : a[i][k][1] <= Head(t)[k][1] } } :
                 a \in SortedDesc(Tail(t), k) }

\* a frame with each row carrying its index label, and back
Labelled(t, idx) == [i \in 1..Len(t) |-> [c \in DOMAIN t[i] \cup {"index"} |->
                                            IF c = "index" THEN idx[i] ELSE t[i][c]]]
Unlabelled(s) == [i \in 1..Len(s) |-> [c \in DOMAIN s[i] \ {"index"} |-> s[i][c]]]
Labels(s) == [i \in 1..Len(s) |-> s[i].index]

\* In[13], line 411: the rows are reordered and keep their labels
Sort ==
    /\ pc = "sort"
    /\ Ran("sort")
    /\ \E s \in SortedDesc(Labelled(global_data, gindex), "TOTALCASES") :
          /\ global_data' = Unlabelled(s)
          /\ gindex' = Labels(s)
    /\ pc' = Then("sort")
    /\ UNCHANGED <<keyVars, usVars, geoVars, outVars, raw_data, country_gdp, country_area, gdp_df_update, base_before, aux_used>>

\* lines 459-461 on one cell
CleanAreaCell(s) == RemoveSubstr(RemoveChar(RemoveChar(s, "\n"), ","), "square miles")

\* In[17], lines 459-470: clean every cell; LAND_AREA to numeric, which raises on
\* a cell that does not parse
AreaFormat ==
    /\ pc = "area_format"
    /\ Ran("area_format")
    /\ LET cleaned == MapRows(country_area,
                          LAMBDA r : [c \in DOMAIN r |-> CleanAreaCell(r[c])])
       IN IF \E i \in 1..Len(cleaned) : ToNumericRaises(cleaned[i].LAND_AREA)
          THEN pc' = "failed" /\ UNCHANGED country_area
          ELSE /\ country_area' = MapRows(cleaned,
                      LAMBDA r : [r EXCEPT !.LAND_AREA = ToNumericCoerce(@)])
               /\ pc' = Then("area_format")
    /\ UNCHANGED <<keyVars, usVars, gindex, geoVars, outVars, raw_data, global_data, country_gdp, gdp_df_update, base_before, aux_used>>

\* In[18], lines 477-492
AreaAlias ==
    /\ pc = "area_alias"
    /\ Ran("area_alias")
    /\ country_area' = MapRows(country_area,
           LAMBDA r : [r EXCEPT !.COUNTRY = ReplaceAll(@, area_aliases)])
    /\ pc' = Then("area_alias")
    /\ UNCHANGED <<keyVars, usVars, gindex, geoVars, outVars, raw_data, global_data, country_gdp, gdp_df_update, base_before, aux_used>>

\* In[19], line 507
MergeGdp ==
    /\ pc = "merge_gdp"
    /\ Ran("merge_gdp")
    /\ base_before' = global_data
    /\ aux_used' = country_gdp
    /\ global_data' = Merge(global_data, country_gdp, "COUNTRY", {"GDP_PER_CAPITA"})
    /\ gindex' = RangeIndex(Len(global_data'))
    /\ pc' = Then("merge_gdp")
    /\ UNCHANGED <<keyVars, usVars, geoVars, outVars, raw_data, country_gdp, country_area, gdp_df_update>>

RECURSIVE GCD(_, _)
GCD(a, b) == IF b = 0 THEN a ELSE GCD(b, a % b)

\* float cells: a finite quotient n/d is <<n \div g, d \div g>> (g the gcd), so
\* that equal quotients are equal cells; inf is <<1, 0>>; 0.0 is <<0, 1>>
Inf == <<1, 0>>
FloatZero == <<0, 1>>

IsFinite(c) == c # NaN /\ c # Inf

\* (variant: a quotient with a zero denominator is 0 whatever the numerator)
DivZeroSafe(a, b) ==
    IF a = NaN \/ b = NaN THEN NaN
    ELSE IF b[1] = 0 THEN FloatZero
    ELSE LET g == GCD(a[1], b[1]) IN <<a[1] \div g, b[1] \div g>>

\* Series / Series on non-negative numeric cells (lines 517, 520, 523, 588):
\* x/0 is inf for x > 0, 0/0 is NaN, NaN propagates
Div(a, b) ==
    IF a = NaN \/ b = NaN THEN NaN
    ELSE IF b[1] = 0 THEN (IF a[1] = 0 THEN NaN ELSE Inf)
    ELSE LET g == GCD(a[1], b[1]) IN <<a[1] \div g, b[1] \div g>>

\* line 524: replace([np.inf, -np.inf], 0) over the whole table (a key cell is
\* text and never equal to inf)
ReplaceInf(t) ==
    MapRows(t, LAMBDA r : [c \in DOMAIN r |->
        IF c = "COUNTRY" THEN r[c] ELSE IF r[c] = Inf THEN FloatZero ELSE r[c]])

\* In[20], lines 517-524: the three rates, then inf replaced by 0
Metrics ==
    /\ pc = "metrics"
    /\ Ran("metrics")
    /\ global_data' = ReplaceInf(MapRows(global_data, LAMBDA r :
           [DEATH_RATE |-> Div(r.TOTALDEATHS, r.TOTALCASES),
            SURVIVAL_RATE |-> Div(r.TOTALRECOVERED, r.TOTALCASES),
            PERCENT_TESTS_POSITIVE |-> Div(r.TOTALCASES, r.TOTALTESTS)] @@ r))
    /\ pc' = Then("metrics")
    /\ UNCHANGED <<keyVars, usVars, gindex, geoVars, outVars, raw_data, country_gdp, country_area, gdp_df_update, base_before, aux_used>>

\* isna().any(axis=1) on one row; the key cell is text in every state
HasNull(r) == \E c \in DOMAIN r \ {"COUNTRY"} : r[c] = NaN

\* In[21], line 538: the rows with a null in some column are displayed
NanRows ==
    /\ pc = "nan_rows"
    /\ Ran("nan_rows")
    /\ nan_rows' =
           LET show == SelectIdx(global_data, HasNull, 1)
           IN [n \in 1..Len(show) |-> global_data[show[n]]]
    /\ pc' = Then("nan_rows")
    /\ UNCHANGED <<keyVars, usVars, gindex, geoVars, gdp_entry, globalisnull, raw_data, global_data, country_gdp, country_area, gdp_df_update, base_before, aux_used>>

\* gdp_entry, line 545
GdpEntry(t) == MapRows(t, LAMBDA r : GdpRow(r.COUNTRY, r.GDP_PER_CAPITA))

\* In[22]-In[23], lines 545-553: the COUNTRY/GDP_PER_CAPITA report is copied out
\* and written to gdp_entry.csv
GdpExport ==
    /\ pc = "gdp_entry"
    /\ Ran("gdp_entry")
    /\ gdp_entry' = GdpEntry(global_data)
    /\ pc' = Then("gdp_entry")
    /\ UNCHANGED <<keyVars, usVars, gindex, geoVars, nan_rows, globalisnull, raw_data, global_data, country_gdp, country_area, gdp_df_update, base_before, aux_used>>

\* gdp_entry2.csv, the export edited by hand: every blank filled in; left as
\* exported; or another table altogether
Corrected(entry) ==
    MapRows(entry, LAMBDA r : [r EXCEPT !.GDP_PER_CAPITA = IF @ = NaN THEN Num(7) ELSE @])

UpdateTables(entry) ==
    { Corrected(entry),
      entry,
      << GdpRow("United Kingdom", Num(41)), GdpRow("United Kingdom", Num(42)),
         GdpRow("Diamond Princess", Num(1)) >> }

DropColumn(t, col) == MapRows(t, LAMBDA r : [c \in DOMAIN r \ {col} |-> r[c]])

\* In[24], lines 560-566: read the edited csv, drop GDP_PER_CAPITA, merge the update
GdpReplace ==
    /\ pc = "gdp_replace"
    /\ Ran("gdp_replace")
    /\ \E upd \in UpdateTables(gdp_entry) :
         LET dropped == DropColumn(global_data, "GDP_PER_CAPITA")
         IN /\ gdp_df_update' = upd
            /\ base_before' = dropped
            /\ aux_used' = upd
            /\ global_data' = Merge(dropped, upd, "COUNTRY", {"GDP_PER_CAPITA"})
    /\ gindex' = RangeIndex(Len(global_data'))
    /\ pc' = Then("gdp_replace")
    /\ UNCHANGED <<keyVars, usVars, geoVars, outVars, raw_data, country_gdp, country_area>>

\* the rows that are ships (line 570)
Excluded == {"Diamond Princess", "MS Zaandam"}

\* In[24], lines 569-570: set_index('COUNTRY').drop([...]).reset_index(); drop raises
\* when one of the labels is not in the index
Exclude ==
    /\ pc = "exclude"
    /\ Ran("exclude")
    /\ IF ~(Excluded \subseteq Keys(global_data, "COUNTRY"))
       THEN pc' = "failed" /\ UNCHANGED <<global_data, gindex>>
       ELSE /\ global_data' =
                LET keep == SelectIdx(global_data, LAMBDA r : r.COUNTRY \notin Excluded, 1)
                IN [n \in 1..Len(keep) |-> global_data[keep[n]]]
            /\ gindex' = RangeIndex(Len(global_data'))
            /\ pc' = Then("exclude")
    /\ UNCHANGED <<keyVars, usVars, geoVars, outVars, raw_data, country_gdp, country_area, gdp_df_update, base_before, aux_used>>

StripKey(t, k) == MapRows(t, LAMBDA r : [r EXCEPT ![k] = StrStrip(@)])

\* In[25], lines 579-581: strip both key columns, merge the land-area table
MergeArea ==
    /\ pc = "merge_area"
    /\ Ran("merge_area")
    /\ LET base == StripKey(global_data, "COUNTRY")
           aux == StripKey(country_area, "COUNTRY")
       IN /\ country_area' = aux
          /\ base_before' = base
          /\ aux_used' = aux
          /\ global_data' = Merge(base, aux, "COUNTRY", {"LAND_AREA"})
    /\ gindex' = RangeIndex(Len(global_data'))
    /\ pc' = Then("merge_area")
    /\ UNCHANGED <<keyVars, usVars, geoVars, outVars, raw_data, country_gdp, gdp_df_update>>

Columns(t) == IF t = <<>> THEN {} ELSE DOMAIN t[1]

\* In[26], line 588: POPULATION / LAND_AREA; nothing replaces inf or NaN afterwards.
\* The attribute access raises when the table has no LAND_AREA column.
Density ==
    /\ pc = "density"
    /\ Ran("density")
    /\ IF global_data # <<>> /\ "LAND_AREA" \notin Columns(global_data)
       THEN pc' = "failed" /\ UNCHANGED global_data
       ELSE /\ global_data' = MapRows(global_data, LAMBDA r :
                   [POPULATION_DENSITY |-> Div(r.POPULATION, r.LAND_AREA)] @@ r)
            /\ pc' = Then("density")
    /\ UNCHANGED <<keyVars, usVars, gindex, geoVars, outVars, raw_data, country_gdp, country_area, gdp_df_update, base_before, aux_used>>

\* In[27], lines 595-609: isnull().any(), one flag per column, drawn as a table
IsNull ==
    /\ pc = "isnull"
    /\ Ran("isnull")
    /\ globalisnull' = [c \in Columns(global_data) |->
           c # "COUNTRY" /\ \E i \in 1..Len(global_data) : global_data[i][c] = NaN]
    /\ pc' = Then("isnull")
    /\ UNCHANGED <<keyVars, usVars, gindex, geoVars, gdp_entry, nan_rows, raw_data, global_data, country_gdp, country_area, gdp_df_update, base_before, aux_used>>

\* In[57], line 1169
TopN == 10

\* t[:n]
FirstRows(t, n) == SubSeq(t, 1, IF Len(t) > n THEN n ELSE Len(t))

TopCases ==
    /\ pc = "top_cases"
    /\ Ran("top_cases")
    /\ top_cases' = FirstRows(global_data, TopN)
    /\ pc' = Then("top_cases")
    /\ UNCHANGED <<keyVars, usVars, gindex, outVars, gdf1, gdf3, shp_df, geo_global_data, raw_data, global_data, country_gdp, country_area, gdp_df_update, base_before, aux_used>>

\* the location the geocoder returns for a query: a function of the query text
Geocode(k) == [LAT |-> Num("lat " \o k), LONG |-> Num("long " \o k)]

\* DataFrame.join(other) of a frame with labels idx and a frame other with the
\* default index: the row labelled l takes the columns of row l of other, nulls
\* when other has no row l; rows and order are those of the left frame
Join(t, idx, other, newcols) ==
    [i \in 1..Len(t) |->
        [c \in DOMAIN t[i] \cup newcols |->
            IF c \in DOMAIN t[i] THEN t[i][c]
            ELSE IF idx[i] + 1 \in 1..Len(other) THEN other[idx[i] + 1][c] ELSE NaN]]

\* In[81]-In[83], lines 2033-2054: one query per key in row order; a query the
\* geocoder cannot resolve returns None and location.latitude raises; global_loc
\* is built from the list (default index) and joined on the index
GeocodeJoin ==
    /\ pc = "geocode"
    /\ Ran("geocode")
    /\ \E resolved \in BOOLEAN :
          IF resolved \/ global_data = <<>>
          THEN LET global_loc == [i \in 1..Len(global_data) |-> Geocode(global_data[i].COUNTRY)]
               IN /\ base_before' = global_data
                  /\ aux_used' = global_loc
                  /\ global_data' = Join(global_data, gindex, global_loc, {"LAT", "LONG"})
                  /\ pc' = Then("geocode")
          ELSE pc' = "failed" /\ UNCHANGED <<global_data, base_before, aux_used>>
    /\ UNCHANGED <<keyVars, usVars, gindex, geoVars, outVars, raw_data, country_gdp, country_area, gdp_df_update>>

GeoRow(c, g) == [COUNTRY |-> c, geometry |-> g]

\* the shapefile tables as read (lines 2062-2080, 2158-2230): gdf1, gdf3, shp_df.
\* Distinct keys with one alias source; several rows for one country; sparse tables
GeoTables ==
    { << << GeoRow("United States", Num("g1_us")), GeoRow("United Kingdom ", Num("g1_uk")),
            GeoRow("Russian Federation", Num("g1_ru")) >>,
         << GeoRow("United States", Num("g3_us")), GeoRow("France", Num("g3_fr")) >>,
         << GeoRow("Hong Kong", Num("s_hk")) >> >>,
      << << GeoRow("United States", Num("g1_us")), GeoRow("United States", Num("g1_ak")),
            GeoRow("United Kingdom", Num("g1_uk")) >>,
         << GeoRow("United States", Num("g3_us")) >>,
         << GeoRow("Macao", Num("s_mo")) >> >>,
      << << GeoRow("Czech Republic", Num("g1_cz")) >>,
         << GeoRow("United Kingdom", NaN) >>,
         << GeoRow("United Kingdom", Num("s_uk")), GeoRow("France", Num("s_fr")) >> >> }

\* In[84]-In[86], lines 2062-2109: the shapefiles are read and the names of gdf1
\* are replaced
Gdf1Alias ==
    /\ pc = "gdf1_alias"
    /\ Ran("gdf1_alias")
    /\ \E g \in GeoTables :
          /\ gdf1' = MapRows(g[1], LAMBDA r : [r EXCEPT !.COUNTRY = ReplaceAll(@, gdf1_aliases)])
          /\ gdf3' = g[2]
          /\ shp_df' = g[3]
    /\ pc' = Then("gdf1_alias")
    /\ UNCHANGED <<keyVars, usVars, gindex, top_cases, outVars, geo_global_data, raw_data, global_data, country_gdp, country_area, gdp_df_update, base_before, aux_used>>

\* DataFrame.update(other) for two frames with a RangeIndex: row i takes every cell
\* of row i of other that is not null, in each column the frames share; the key
\* cell is text, never null
Update(t, other) ==
    [i \in 1..Len(t) |->
        IF i > Len(other) THEN t[i]
        ELSE [c \in DOMAIN t[i] |->
                IF c \notin DOMAIN other[i] THEN t[i][c]
                ELSE IF c = "COUNTRY" THEN other[i][c]
                ELSE IF other[i][c] = NaN THEN t[i][c] ELSE other[i][c]]]

\* In[87], lines 2124-2134: strip the keys, merge gdf1, merge gdf3, update
GeoMerge ==
    /\ pc = "geo_merge"
    /\ Ran("geo_merge")
    /\ gdf1' = StripKey(gdf1, "COUNTRY")
    /\ gdf3' = StripKey(gdf3, "COUNTRY")
    /\ global_data' = StripKey(global_data, "COUNTRY")
    /\ \E geo1 \in {Merge(global_data', gdf1', "COUNTRY", {"geometry"})} :
       \E geo_global_data2 \in {Merge(global_data', gdf3', "COUNTRY", {"geometry"})} :
          geo_global_data' = Update(geo1, geo_global_data2)
    /\ pc' = Then("geo_merge")
    /\ UNCHANGED <<keyVars, usVars, gindex, top_cases, outVars, shp_df, raw_data, country_gdp, country_area, gdp_df_update, base_before, aux_used>>

\* In[95]-In[96], lines 2235-2245: strip shp_df's keys, merge it, update
GeoUpdate3 ==
    /\ pc = "geo_update3"
    /\ Ran("geo_update3")
    /\ shp_df' = StripKey(shp_df, "COUNTRY")
    /\ \E geo_global_data3 \in {Merge(global_data, shp_df', "COUNTRY", {"geometry"})} :
          geo_global_data' = Update(geo_global_data, geo_global_data3)
    /\ pc' = Then("geo_update3")
    /\ UNCHANGED <<keyVars, usVars, gindex, top_cases, outVars, gdf1, gdf3, raw_data, global_data, country_gdp, country_area, gdp_df_update, base_before, aux_used>>

Next ==
    \/ Format
    \/ Alias
    \/ Coerce
    \/ Sort
    \/ AreaFormat
    \/ AreaAlias
    \/ MergeGdp
    \/ Metrics
    \/ NanRows
    \/ GdpExport
    \/ GdpReplace
    \/ Exclude
    \/ MergeArea
    \/ Density
    \/ IsNull
    \/ TopCases
    \/ GeocodeJoin
    \/ Gdf1Alias
    \/ GeoMerge
    \/ GeoUpdate3

-----------------------------------------------------------------------------
(* US pipeline *)

\* numeric columns of us_data that the model carries (cols, line 677)
us_cols == {"TOTALCASES", "TOTALDEATHS", "TOTALRECOVERED", "ACTIVECASES",
            "TOTALTESTS", "POPULATION"}

USRow(st, cases, deaths, recovered, active, tests, pop) ==
    [USASTATE |-> st, TOTALCASES |-> cases, TOTALDEATHS |-> deaths,
     TOTALRECOVERED |-> recovered, ACTIVECASES |-> active,
     TOTALTESTS |-> tests, POPULATION |-> pop]

\* rows dropped at the head and at the tail of the scraped US table
USHeadDrop == 1
USTailDrop == 13

USSampleRows ==
    { USRow("\nNew York ", "2,000", "+90", "1,500", "410", "9,000", "19,000"),
      USRow("Hawaii", "300", "4", "N/A", "N/A", "3,000", "1,400"),
      USRow("South Carolina", "800", "", "", "", "0", "5,000"),
      USRow("District Of Columbia", "100", "3", "80", "17", "1,000", "700"),
      USRow("Texas", "0", "0", "0", "0", "0", "29,000") }

USJunkRow == USRow("USA Total", "3,000", "", "", "", "", "")

USRawTables ==
    { [i \in 1..USHeadDrop |-> USJunkRow] \o data \o [i \in 1..USTailDrop |-> USJunkRow] :
        data \in SeqsUpTo(USSampleRows, MaxRows) }

\* the 13 header texts of the scraped US table in page order (headers, line 277):
\* the texts whose strip/upper/underscore forms are the names that the rename, drop
\* and cols lists of lines 653-679 refer to, 'Tot Cases/1M pop' being column 8
USHeaders ==
    << "#", "\nUSAState\n", "TotalCases", "NewCases", "TotalDeaths", "NewDeaths",
       "TotalRecovered", "ActiveCases", "Tot Cases/1M pop", "Deaths/1M pop",
       "TotalTests", "Tests/1M pop", " Population" >>

Without(names, n) ==
    LET keep == SelectIdx(names, LAMBDA x : x # n, 1)
    IN [i \in 1..Len(keep) |-> names[keep[i]]]

Range(names) == {names[i] : i \in 1..Len(names)}

\* header rows the page may serve: the full one; one column gone; the first
\* eight columns only
USHeaderSets ==
    {USHeaders, SubSeq(USHeaders, 1, 8)} \cup
    {Without(USHeaders, n) : n \in {"#", "\nUSAState\n", "NewDeaths", " Population"}}

LowerChars == "abcdefghijklmnopqrstuvwxyz"
UpperChars == "ABCDEFGHIJKLMNOPQRSTUVWXYZ"

UpperChar(c) ==
    IF \E i \in 1..Len(LowerChars) : SubSeq(LowerChars, i, i) = c
    THEN LET i == CHOOSE j \in 1..Len(LowerChars) : SubSeq(LowerChars, j, j) = c
         IN SubSeq(UpperChars, i, i)
    ELSE c

\* str.upper()
RECURSIVE Upper(_)
Upper(s) == IF s = "" THEN "" ELSE UpperChar(Head(s)) \o Upper(Tail(s))

\* str.replace(a, b) for one-character a
RECURSIVE ReplaceChar(_, _, _)
ReplaceChar(s, a, b) ==
    IF s = "" THEN ""
    ELSE (IF Head(s) = a THEN b ELSE Head(s)) \o ReplaceChar(Tail(s), a, b)

\* lines 289-290 on one column name: strip, upper, blanks to underscores
CanonName(s) == ReplaceChar(Upper(StrStrip(s)), " ", "_")

CanonNames(h) == [i \in 1..Len(h) |-> CanonName(h[i])]

\* a table with the columns of the header row h only; a row is stored under the
\* strip/upper/underscore form of the header text
Project(t, h) == MapRows(t, LAMBDA r : [c \in DOMAIN r \cap Range(CanonNames(h)) |-> r[c]])

ShapeRow(st, code, geom) == [STATE |-> st, STUSPS |-> code, geometry |-> geom]

\* cb_2018_us_state_500k.shp after the rename of line 2326
ShapeTables ==
    { << ShapeRow("New York", Num("NY"), Num("poly_ny")),
         ShapeRow("Hawaii ", Num("HI"), Num("poly_hi")),
         ShapeRow("Puerto Rico", Num("PR"), Num("poly_pr")) >>,
      << ShapeRow("Texas", Num("TX"), Num("poly_tx1")),
         ShapeRow("Texas", Num("TX"), Num("poly_tx2")) >>,
      << ShapeRow("District of Columbia", Num("DC"), Num("poly_dc")) >> }

InitUS ==
    /\ us_headers \in USHeaderSets
    /\ us_columns = us_headers
    /\ raw_data2 \in {Project(t, us_headers) : t \in USRawTables}
    /\ us_data = raw_data2
    /\ us_shared = TRUE
    /\ us_before = <<>>
    /\ gdus \in ShapeTables
    /\ us_geodata = <<>>
    /\ upc = "us_header"
    /\ ulast = "scrape"
    /\ name = "" /\ key = "" /\ tbl = "global" /\ kpc = "idle"
    /\ raw_data = <<>> /\ global_data = <<>> /\ country_gdp = <<>>
    /\ country_area = <<>> /\ gdp_df_update = <<>>
    /\ pc = "idle" /\ last = "idle" /\ base_before = <<>> /\ aux_used = <<>>
    /\ hist = <<>> /\ gdp_entry = <<>> /\ nan_rows = <<>> /\ globalisnull = <<>>
    /\ gdf1 = <<>> /\ gdf3 = <<>> /\ shp_df = <<>> /\ geo_global_data = <<>>
    /\ top_cases = <<>>
    /\ gindex = <<>> /\ uindex = RangeIndex(Len(raw_data2))

\* lines 286-290: us_data = raw_data2 binds a second name to the one DataFrame;
\* the assignment to us_data.columns renames the columns of that object
USHeader ==
    /\ upc = "us_header"
    /\ ulast' = "us_header"
    /\ us_columns' = CanonNames(us_columns)
    /\ us_headers' = IF us_shared THEN us_columns' ELSE us_headers
    /\ upc' = "us_format"
    /\ UNCHANGED <<keyVars, worldVars, uindex, us_before, us_shared, raw_data2, us_data, gdus, us_geodata>>

\* In[29], lines 629-632: replace() returns a new DataFrame, which us_data names
\* from here on
USFormat ==
    /\ upc = "us_format"
    /\ ulast' = "us_format"
    /\ us_data' = MapRows(us_data, CleanRow)
    /\ us_shared' = FALSE
    /\ us_columns' = [i \in 1..Len(us_columns) |-> RemoveChar(us_columns[i], "\n")]
    /\ upc' = "us_slice"
    /\ UNCHANGED <<keyVars, worldVars, uindex, us_before, raw_data2, gdus, us_geodata, us_headers>>

\* In[30], lines 642-645: drop row 0, then the last 13 of what remains
USSlice ==
    /\ upc = "us_slice"
    /\ ulast' = "us_slice"
    /\ IF Len(us_data) < USHeadDrop
       THEN upc' = "failed" /\ UNCHANGED <<us_data, uindex>>
       ELSE /\ us_data' = DropRows(us_data, USHeadDrop, USTailDrop)
            /\ uindex' = RangeIndex(Len(us_data'))
            /\ upc' = "us_rename"
    /\ UNCHANGED <<keyVars, worldVars, us_before, us_shared, raw_data2, gdus, us_geodata, us_headers, us_columns>>

\* In[31], line 653: the rename by position
USRenameAt == 8

\* In[31], lines 654-657: the rename by name, old name and new name
us_renames ==
    << <<"USASTATE", "STATE">>, <<"DEATHS/1M_POP", "DEATH_PER_1M">>,
       <<"TOT CASES/1M_POP", "TOTCASES_PER_1M">>, <<"TESTS/1M_POP", "TESTS_PER_1M">> >>

\* In[31], line 661
us_drops == {"#", "NEWCASES", "NEWDEATHS"}

\* cols, lines 677-679
us_numeric == us_cols \cup {"TOTCASES_PER_1M", "DEATH_PER_1M", "TESTS_PER_1M"}

\* rename(columns={old: new}) on one row: nothing happens when old is no column
RenameField(r, old, new) ==
    IF old \in DOMAIN r /\ old # new
    THEN [c \in (DOMAIN r \ {old}) \cup {new} |-> IF c = new THEN r[old] ELSE r[c]]
    ELSE r

RECURSIVE RenameFields(_, _)
RenameFields(r, renames) ==
    IF renames = <<>> THEN r
    ELSE RenameFields(RenameField(r, Head(renames)[1], Head(renames)[2]), Tail(renames))

\* In[31], lines 653-661: rename column 8 by position (IndexError on a shorter
\* header row), rename by name (a name that is no column is skipped), drop three
\* columns (KeyError when one is not there)
USRename ==
    /\ upc = "us_rename"
    /\ ulast' = "us_rename"
    /\ IF Len(us_columns) <= USRenameAt
       THEN upc' = "failed" /\ UNCHANGED <<us_data, us_columns>>
       ELSE LET byPos == << <<us_columns[USRenameAt + 1], "TOTCASES_PER_1M">> >>
                named == [i \in 1..Len(us_columns) |->
                            ReplaceAll(ReplaceAll(us_columns[i], byPos), us_renames)]
                keep == SelectIdx(named, LAMBDA x : x \notin us_drops, 1)
            IN IF ~(us_drops \subseteq Range(named))
               THEN upc' = "failed" /\ UNCHANGED <<us_data, us_columns>>
               ELSE /\ us_columns' = [i \in 1..Len(keep) |-> named[keep[i]]]
                    /\ us_data' = MapRows(us_data, LAMBDA r :
                           LET q == RenameFields(r, byPos \o us_renames)
                           IN [c \in DOMAIN q \ us_drops |-> q[c]])
                    /\ upc' = "us_coerce"
    /\ UNCHANGED <<keyVars, worldVars, uindex, us_before, us_shared, raw_data2, gdus, us_geodata, us_headers>>

\* (variant: NaN filled with 0 before the integer cast, as the world table does)
USCoerceCellFilled(s) == FillNa(ToNumericCoerce(s))

\* line 681 on one numeric cell: to_numeric(errors='coerce'); no fillna follows
USCoerceCell(s) == ToNumericCoerce(s)

USCoerced(t) ==
    MapRows(t, LAMBDA r : [c \in DOMAIN r |-> IF c \in us_cols THEN USCoerceCell(r[c]) ELSE r[c]])

HasNaN(t, columns) == \E i \in 1..Len(t) : \E c \in columns : t[i][c] = NaN

\* In[33], lines 677-685: to_numeric, then pd.Series(column, dtype=int) per column.
\* The cast of a column holding NaN either raises (the cast is refused) or is
\* skipped and leaves the column as it is, depending on the pandas release.
\* us_data[cols] raises KeyError when a name of cols is no column.
USCoerce ==
    /\ upc = "us_coerce"
    /\ ulast' = "us_coerce"
    /\ \/ /\ us_numeric \subseteq Range(us_columns)
          /\ us_data' = USCoerced(us_data)
          /\ upc' = "us_metrics"
       \/ /\ us_numeric \subseteq Range(us_columns)
          /\ HasNaN(USCoerced(us_data), us_cols)
          /\ upc' = "failed"
          /\ UNCHANGED us_data
       \/ /\ ~(us_numeric \subseteq Range(us_columns))
          /\ upc' = "failed"
          /\ UNCHANGED us_data
    /\ UNCHANGED <<keyVars, worldVars, uindex, us_before, us_shared, raw_data2, gdus, us_geodata, us_headers, us_columns>>

\* the columns a row of us_data has besides its key, from In[34] on
us_cols_rates ==
    << "TOTALCASES", "TOTALDEATHS", "TOTALRECOVERED", "ACTIVECASES", "TOTALTESTS",
       "POPULATION", "DEATH_RATE", "SURVIVAL_RATE", "PERCENT_TESTS_POSITIVE" >>

us_rates == <<"DEATH_RATE", "SURVIVAL_RATE", "PERCENT_TESTS_POSITIVE">>

\* In[34], lines 696-702: the three rates; inf is left in place (line 704 is a
\* comment)
USMetrics ==
    /\ upc = "us_metrics"
    /\ ulast' = "us_metrics"
    /\ us_data' = MapRows(us_data, LAMBDA r :
           [DEATH_RATE |-> Div(r.TOTALDEATHS, r.TOTALCASES),
            SURVIVAL_RATE |-> Div(r.TOTALRECOVERED, r.TOTALCASES),
            PERCENT_TESTS_POSITIVE |-> Div(r.TOTALCASES, r.TOTALTESTS)] @@ r)
    /\ us_columns' = us_columns \o us_rates
    /\ upc' = "us_strip"
    /\ UNCHANGED <<keyVars, worldVars, uindex, us_before, us_shared, raw_data2, gdus, us_geodata, us_headers>>

\* In[52], line 1072
USStrip ==
    /\ upc = "us_strip"
    /\ ulast' = "us_strip"
    /\ us_data' = StripKey(us_data, "STATE")
    /\ upc' = "us_set_index"
    /\ UNCHANGED <<keyVars, worldVars, uindex, us_before, us_shared, raw_data2, gdus, us_geodata, us_headers, us_columns>>

\* set_index(k): the column k becomes the index
SetIndex(t, k) ==
    [rows |-> MapRows(t, LAMBDA r : [c \in DOMAIN r \ {k} |-> r[c]]),
     idx |-> [i \in 1..Len(t) |-> t[i][k]]]

\* reset_index(): the index becomes the column k again
ResetIndex(f, k) ==
    [i \in 1..Len(f.rows) |->
        [c \in DOMAIN f.rows[i] \cup {k} |-> IF c = k THEN f.idx[i] ELSE f.rows[i][c]]]

\* In[53], line 1078
USSetIndex ==
    /\ upc = "us_set_index"
    /\ ulast' = "us_set_index"
    /\ us_data' = SetIndex(us_data, "STATE").rows
    /\ uindex' = SetIndex(us_data, "STATE").idx
    /\ us_columns' = Without(us_columns, "STATE")
    /\ upc' = "us_override"
    /\ UNCHANGED <<keyVars, worldVars, us_before, us_shared, raw_data2, gdus, us_geodata, us_headers>>

\* the states whose cells are replaced, lines 1086-1116
override_states ==
    << "Hawaii", "South Carolina", "Indiana", "Wisconsin", "Alabama", "Louisiana",
       "Nebraska", "Maine" >>

\* counts scraped from the state pages (lines 722-1063)
ScrapedRecovered == {Num(0), Num(250)}
ScrapedActive == {Num(40)}

\* frame.at[label, col] = v on a frame whose columns are names: every row labelled
\* label takes v in col; when no row has the label the frame is enlarged by a row
\* with that label, v in col and null in every other column
AtSet(f, names, label, col, v) ==
    IF \E i \in 1..Len(f.idx) : f.idx[i] = label
    THEN [f EXCEPT !.rows = [i \in 1..Len(f.rows) |->
                                IF f.idx[i] = label THEN [f.rows[i] EXCEPT ![col] = v]
                                ELSE f.rows[i]]]
    ELSE [rows |-> Append(f.rows, [c \in names |-> IF c = col THEN v ELSE NaN]),
          idx |-> Append(f.idx, label)]

\* (variant: the rate is not recomputed)
OverrideStateStale(f, names, st, recovered, active) ==
    AtSet(AtSet(f, names, st, "TOTALRECOVERED", recovered), names, st, "ACTIVECASES", active)

\* the three statements for one state, e.g. lines 1086-1088: recovered / the
\* state's TOTALCASES is taken row by row (one row unless the label repeats)
OverrideState(f, names, st, recovered, active) ==
    LET g == AtSet(AtSet(f, names, st, "TOTALRECOVERED", recovered),
                   names, st, "ACTIVECASES", active)
    IN [g EXCEPT !.rows = [i \in 1..Len(g.rows) |->
                              IF g.idx[i] = st
                              THEN [g.rows[i] EXCEPT
                                      !.SURVIVAL_RATE = Div(recovered, g.rows[i].TOTALCASES)]
                              ELSE g.rows[i]]]

RECURSIVE Overrides(_, _, _, _, _)
Overrides(f, names, states, recovered, active) ==
    IF states = <<>> THEN f
    ELSE Overrides(OverrideState(f, names, Head(states), recovered, active),
                   names, Tail(states), recovered, active)

Repeated(idx, labels) ==
    \E i, j \in 1..Len(idx) : i # j /\ idx[i] = idx[j] /\ idx[i] \in Range(labels)

\* In[54], lines 1086-1116.  On a label that repeats, frame.at[label, col] reads
\* a Series; assigning recovered / Series through .at either sets the rows one
\* by one or is refused, depending on the pandas release.
USOverride ==
    /\ upc = "us_override"
    /\ ulast' = "us_override"
    /\ us_before' = [rows |-> us_data, idx |-> uindex]
    /\ \/ \E recovered \in ScrapedRecovered, active \in ScrapedActive :
             LET f == Overrides(us_before', Range(us_cols_rates), override_states,
                                recovered, active)
             IN /\ us_data' = f.rows
                /\ uindex' = f.idx
                /\ upc' = "us_reset"
       \/ /\ Repeated(uindex, override_states)
          /\ upc' = "failed"
          /\ UNCHANGED <<us_data, uindex>>
    /\ UNCHANGED <<keyVars, worldVars, us_shared, raw_data2, gdus, us_geodata, us_headers, us_columns>>

\* In[56], line 1144
USReset ==
    /\ upc = "us_reset"
    /\ ulast' = "us_reset"
    /\ us_data' = ResetIndex([rows |-> us_data, idx |-> uindex], "STATE")
    /\ uindex' = RangeIndex(Len(us_data))
    /\ us_columns' = <<"STATE">> \o us_columns
    /\ upc' = "us_geocode"
    /\ UNCHANGED <<keyVars, worldVars, us_before, us_shared, raw_data2, gdus, us_geodata, us_headers>>

\* In[99]-In[102], lines 2286-2314: one query per STATE in row order; state_loc is
\* built from the list (default index) and joined on the index
USGeocodeJoin ==
    /\ upc = "us_geocode"
    /\ ulast' = "us_geocode"
    /\ \E resolved \in BOOLEAN :
          IF resolved \/ us_data = <<>>
          THEN LET state_loc == [i \in 1..Len(us_data) |-> Geocode(us_data[i].STATE)]
               IN /\ us_data' = Join(us_data, uindex, state_loc, {"LAT", "LONG"})
                  /\ us_columns' = us_columns \o <<"LAT", "LONG">>
                  /\ upc' = "us_merge"
          ELSE upc' = "failed" /\ UNCHANGED <<us_data, us_columns>>
    /\ UNCHANGED <<keyVars, worldVars, uindex, us_before, us_shared, raw_data2, gdus, us_geodata, us_headers>>

\* In[104], lines 2337-2339: strip both key columns, merge the state shapes
USMerge ==
    /\ upc = "us_merge"
    /\ ulast' = "us_merge"
    /\ us_data' = StripKey(us_data, "STATE")
    /\ gdus' = StripKey(gdus, "STATE")
    /\ us_geodata' = Merge(us_data', gdus', "STATE", {"STUSPS", "geometry"})
    /\ upc' = "us_dc"
    /\ UNCHANGED <<keyVars, worldVars, uindex, us_before, us_shared, raw_data2, us_headers, us_columns>>

\* the geometry read from Washington_DC_Boundary.shp (dc_shp.iat[0, 9], line 2398)
dc_geometry == Num("poly_dc")

\* In[107]-In[112], lines 2362-2405: STUSPS is renamed CODE; the keys are stripped,
\* STATE becomes the index, two cells of 'District Of Columbia' are set, the
\* index is reset
USDcOverride ==
    /\ upc = "us_dc"
    /\ ulast' = "us_dc"
    /\ LET renamed == MapRows(us_geodata, LAMBDA r : RenameField(r, "STUSPS", "CODE"))
           f == SetIndex(StripKey(renamed, "STATE"), "STATE")
           names == (Range(us_cols_rates) \cup {"LAT", "LONG", "CODE", "geometry"})
           g == AtSet(AtSet(f, names, "District Of Columbia", "geometry", dc_geometry),
                      names, "District Of Columbia", "CODE", Num("DC"))
       IN /\ us_before' = f
          /\ us_geodata' = ResetIndex(g, "STATE")
    /\ upc' = "done"
    /\ UNCHANGED <<keyVars, worldVars, uindex, us_shared, raw_data2, us_data, gdus, us_headers, us_columns>>

NextUS ==
    \/ USHeader
    \/ USFormat
    \/ USSlice
    \/ USRename
    \/ USCoerce
    \/ USMetrics
    \/ USStrip
    \/ USSetIndex
    \/ USOverride
    \/ USReset
    \/ USGeocodeJoin
    \/ USMerge
    \/ USDcOverride

-----------------------------------------------------------------------------
(* Specifications.  The three parts of the notebook do not share state; each  *)
(* is checked with the variables of the other two at rest.                   *)

\* The row filtering of both scraped tables: the statements of lines 286-290,
\* 325-334 and 629-645 from the tables as scraped
InitRows ==
    /\ raw_data \in {t \in RawTables : Len(t) <= HeadDrop + TailDrop + 1}
    /\ global_data = raw_data
    /\ country_gdp = <<>>
    /\ country_area = <<>>
    /\ gdp_df_update = <<>>
    /\ pc = "format"
    /\ last = "scrape"
    /\ base_before = <<>>
    /\ aux_used = <<>>
    /\ hist = <<>> /\ gdp_entry = <<>> /\ nan_rows = <<>> /\ globalisnull = <<>>
    /\ gdf1 = <<>> /\ gdf3 = <<>> /\ shp_df = <<>> /\ geo_global_data = <<>>
    /\ top_cases = <<>>
    /\ gindex = RangeIndex(Len(raw_data))
    /\ us_headers = USHeaders
    /\ us_columns = us_headers
    /\ raw_data2 \in {Project(t, us_headers) : t \in USRawTables}
    /\ us_data = raw_data2
    /\ uindex = RangeIndex(Len(raw_data2))
    /\ us_shared = TRUE
    /\ us_before = <<>>
    /\ gdus = <<>>
    /\ us_geodata = <<>>
    /\ upc = "us_header"
    /\ ulast = "scrape"
    /\ name = "" /\ key = "" /\ tbl = "global" /\ kpc = "idle"

NextRows ==
    \/ Format
    \/ USHeader
    \/ USFormat
    \/ USSlice

\* Both pipelines side by side: the world table scraped with two data rows and
\* the two ship rows, the US table with one data row
InitBoth ==
    /\ raw_data \in { [i \in 1..HeadDrop |-> JunkRow] \o <<d, e>> \o ShipRows
                          \o [i \in 1..TailDrop |-> JunkRow] :
                      d \in {r \in SampleRows : r.COUNTRY = "USA"},
                      e \in {r \in SampleRows : r.COUNTRY \in {"UK", "United States"}} }
    /\ global_data = raw_data
    /\ country_gdp \in {g \in GdpTables : Len(g) = 1}
    /\ country_area \in {t \in AreaTables : Len(t) = 3}
    /\ gdp_df_update = <<>>
    /\ pc = cells[1]
    /\ last = "scrape"
    /\ base_before = <<>>
    /\ aux_used = <<>>
    /\ hist = <<>> /\ gdp_entry = <<>> /\ nan_rows = <<>> /\ globalisnull = <<>>
    /\ gdf1 = <<>> /\ gdf3 = <<>> /\ shp_df = <<>> /\ geo_global_data = <<>>
    /\ top_cases = <<>>
    /\ gindex = RangeIndex(Len(raw_data))
    /\ us_headers = USHeaders
    /\ us_columns = us_headers
    /\ raw_data2 \in { Project([i \in 1..USHeadDrop |-> USJunkRow] \o <<d>>
                                  \o [i \in 1..USTailDrop |-> USJunkRow], us_headers) :
                            d \in USSampleRows }
    /\ us_data = raw_data2
    /\ uindex = RangeIndex(Len(raw_data2))
    /\ us_shared = TRUE
    /\ us_before = <<>>
    /\ gdus \in {t \in ShapeTables : Len(t) = 3}
    /\ us_geodata = <<>>
    /\ upc = "us_header"
    /\ ulast = "scrape"
    /\ name = "" /\ key = "" /\ tbl = "global" /\ kpc = "idle"

NextBoth ==
    \/ Format
    \/ Alias
    \/ Coerce
    \/ Sort
    \/ AreaFormat
    \/ AreaAlias
    \/ MergeGdp
    \/ Metrics
    \/ NanRows
    \/ GdpExport
    \/ GdpReplace
    \/ Exclude
    \/ MergeArea
    \/ Density
    \/ IsNull
    \/ TopCases
    \/ GeocodeJoin
    \/ Gdf1Alias
    \/ GeoMerge
    \/ GeoUpdate3
    \/ USHeader
    \/ USFormat
    \/ USSlice
    \/ USRename
    \/ USCoerce
    \/ USMetrics
    \/ USStrip
    \/ USSetIndex
    \/ USOverride
    \/ USReset
    \/ USGeocodeJoin
    \/ USMerge
    \/ USDcOverride

Spec == Init /\ [][Next]_vars

SpecBoth == InitBoth /\ [][NextBoth]_vars

SpecRows == InitRows /\ [][NextRows]_vars

SpecKey == InitKey /\ [][NextKey]_vars

SpecUS == InitUS /\ [][NextUS]_vars

-----------------------------------------------------------------------------
(* Properties *)

MergeSteps == {"merge_gdp", "gdp_replace", "merge_area"}

\* the column the last merge added
AuxColumn == IF last = "merge_area" THEN "LAND_AREA" ELSE "GDP_PER_CAPITA"

AfterMerge == last \in MergeSteps /\ pc # "failed"

HasPartner(k) == \E j \in 1..Len(aux_used) : aux_used[j].COUNTRY = k

\* row r of the merged table restricted to the columns of the base table
BasePart(r) == [c \in DOMAIN r \ {AuxColumn} |-> r[c]]

\* C1: after each left merge of the world pipeline (country_gdp, gdp_df_update,
\* country_area) the merged table has exactly as many rows as the base table had
\* before the merge, whatever the auxiliary table.
C1_MergeKeepsRowCount ==
    AfterMerge => Len(global_data) = Len(base_before)

C3_NullIffNoPartner ==
    AfterMerge =>
        \A n \in 1..Len(global_data) :
            LET r == global_data[n] IN
            /\ (r[AuxColumn] = NaN) <=> ~HasPartner(r.COUNTRY)
            /\ HasPartner(r.COUNTRY) =>
                 \E j \in 1..Len(aux_used) :
                    aux_used[j].COUNTRY = r.COUNTRY /\ r[AuxColumn] = aux_used[j][AuxColumn]
            /\ \E i \in 1..Len(base_before) : base_before[i] = BasePart(r)

\* C3 amended: after a merge a row's auxiliary column is null when no auxiliary row
\* has the identical key; when auxiliary rows have the key, the column holds the
\* value of one of them (null only if that value is itself null) and every such
\* value appears in a row of that base row; the base columns keep their values.
C3_AuxValueByKey ==
    AfterMerge =>
        /\ \A n \in 1..Len(global_data) :
              LET r == global_data[n] IN
              /\ ~HasPartner(r.COUNTRY) => r[AuxColumn] = NaN
              /\ HasPartner(r.COUNTRY) =>
                   \E j \in 1..Len(aux_used) :
                      aux_used[j].COUNTRY = r.COUNTRY /\ r[AuxColumn] = aux_used[j][AuxColumn]
              /\ \E i \in 1..Len(base_before) : base_before[i] = BasePart(r)
        /\ \A i \in 1..Len(base_before) : \A j \in 1..Len(aux_used) :
              aux_used[j].COUNTRY = base_before[i].COUNTRY =>
                 \E n \in 1..Len(global_data) :
                    /\ BasePart(global_data[n]) = base_before[i]
                    /\ global_data[n][AuxColumn] = aux_used[j][AuxColumn]

\* a merge with a base row whose partner has a blank value, a base row whose partner
\* has a value, and a base row without partner
C3_Witness ==
    /\ AfterMerge
    /\ \E n \in 1..Len(global_data) :
          HasPartner(global_data[n].COUNTRY) /\ global_data[n][AuxColumn] = NaN
    /\ \E n \in 1..Len(global_data) :
          HasPartner(global_data[n].COUNTRY) /\ global_data[n][AuxColumn] # NaN
    /\ \E n \in 1..Len(global_data) : ~HasPartner(global_data[n].COUNTRY)

\* the data rows of the scraped world table (what the head/tail slice keeps)
RawDataRows == SubSeq(raw_data, HeadDrop + 1, Len(raw_data) - TailDrop)

RawNamesDistinct ==
    \A i, j \in 1..Len(RawDataRows) :
        i # j => RawDataRows[i].COUNTRY # RawDataRows[j].COUNTRY

AfterAlias == pc \notin {"format", "alias", "failed", "idle"}

\* C4: once the alias replacement has run, every entity key of the working table
\* occurs in exactly one row, and this stays so after every later step, for any
\* scraped table whose raw entity names are pairwise distinct.  (A key is the text
\* of a scraped cell, a string in every state: the non-null half of the claim is
\* not what fails.)
C4_KeysUnique ==
    (AfterAlias /\ RawNamesDistinct) =>
        \A i, j \in 1..Len(global_data) :
            i # j => global_data[i].COUNTRY # global_data[j].COUNTRY

\* C5: alias replacement maps a name that equals an alias source exactly to the
\* table's canonical value and returns every other name unchanged, including one
\* that differs from a source in letter case only.
C5_ExactMatchOnly ==
    kpc = "replaced" =>
        key = IF name \in Sources(AliasesOf(tbl))
              THEN Canonical(AliasesOf(tbl), name) ELSE name

\* a name that differs from the source "USA" in case only, left as it is
C5_Witness ==
    kpc = "replaced" /\ tbl = "global" /\ name = "usa" /\ key = "usa"

\* C6: applying a table's alias replacements a second time to the replaced key
\* changes nothing, for each of the three alias tables.
C6_ReplaceIdempotent ==
    kpc = "replaced" => ReplaceAll(key, AliasesOf(tbl)) = key

\* a key that the first application did rewrite
C6_Witness ==
    kpc = "replaced" /\ name = "USA" /\ key = "United States"

\* C7: surrounding whitespace is stripped from an entity name before the alias
\* lookup, so a name that equals an alias source up to surrounding whitespace ends
\* up as the canonical key.
C7_StripBeforeAlias ==
    (kpc \in {"replaced", "stripped"} /\ StrStrip(name) \in Sources(AliasesOf(tbl))) =>
        key = Canonical(AliasesOf(tbl), StrStrip(name))

USCoerced_Done == ulast = "us_coerce" /\ upc = "us_metrics"

\* the cleaned text of cell c of the i-th data row of the scraped US table
USCleaned(i, c) == CleanCell(raw_data2[USHeadDrop + i][c])

\* C9: a cell of a declared numeric column that fails numeric parsing has the
\* value zero after the type-coercion step (US table).
C9_ParseFailureIsZero ==
    USCoerced_Done =>
        \A i \in 1..Len(us_data) : \A c \in us_cols :
            ~Parses(USCleaned(i, c)) => us_data[i][c] = Num(0)

\* C10: after normalization every declared numeric column is present and every one
\* of its cells holds a number; no missing value survives (US table).
C10_NumericColumnsHoldNumbers ==
    USCoerced_Done =>
        \A i \in 1..Len(us_data) : \A c \in us_cols :
            c \in DOMAIN us_data[i] /\ IsNum(us_data[i][c])

MetricsDone == "metrics" \in {hist[i] : i \in 1..Len(hist)}

\* C11: after the metrics step, in every row of the world table, DEATH_RATE and
\* SURVIVAL_RATE are exactly zero when TOTALCASES is zero and
\* PERCENT_TESTS_POSITIVE is exactly zero when TOTALTESTS is zero, whatever the
\* numerator (zero included).
C11_ZeroDenominatorIsZero ==
    (MetricsDone /\ pc # "failed") =>
        \A i \in 1..Len(global_data) :
            LET r == global_data[i] IN
            /\ r.TOTALCASES = Num(0) =>
                  r.DEATH_RATE = FloatZero /\ r.SURVIVAL_RATE = FloatZero
            /\ r.TOTALTESTS = Num(0) => r.PERCENT_TESTS_POSITIVE = FloatZero

DerivedColumns ==
    {"DEATH_RATE", "SURVIVAL_RATE", "PERCENT_TESTS_POSITIVE", "POPULATION_DENSITY"}

\* C12: in the final world table every derived column (the three rates and
\* POPULATION_DENSITY) holds a finite number in every row: no inf, no NaN, also for
\* a row whose LAND_AREA is zero or missing.
C12_DerivedColumnsFinite ==
    pc = "done" =>
        \A i \in 1..Len(global_data) : \A c \in DerivedColumns :
            c \in DOMAIN global_data[i] /\ IsFinite(global_data[i][c])

MetricSteps == {"metrics", "density"}

\* the columns a derived-metric step reads (lines 517-523, 588)
Reads(step) ==
    IF step = "metrics"
    THEN {"TOTALDEATHS", "TOTALCASES", "TOTALRECOVERED", "TOTALTESTS"}
    ELSE {"POPULATION", "LAND_AREA"}

\* the column a merge step writes (lines 507, 566, 581)
Writes(step) == IF step = "merge_area" THEN {"LAND_AREA"} ELSE {"GDP_PER_CAPITA"}

\* C13: whenever a derived-metric step has run, every merge that writes one of
\* its input columns ran before it and does not run after it; in particular the
\* density step follows the land-area merge and POPULATION_DENSITY is the quotient
\* of POPULATION and the merged LAND_AREA.
C13_MetricsAfterInputMerges ==
    /\ \A p \in 1..Len(hist) : \A m \in MergeSteps :
          (hist[p] \in MetricSteps /\ Writes(m) \cap Reads(hist[p]) # {}) =>
              /\ \E q \in 1..p - 1 : hist[q] = m
              /\ \A q \in p + 1..Len(hist) : hist[q] # m
    /\ (last = "density" /\ pc # "failed") =>
          \A i \in 1..Len(global_data) :
              global_data[i].POPULATION_DENSITY =
                  Div(global_data[i].POPULATION, global_data[i].LAND_AREA)

\* both metric steps have run and a density was computed from a merged land area
C13_Witness ==
    /\ pc = "done"
    /\ \E p, q \in 1..Len(hist) : hist[p] = "metrics" /\ hist[q] = "density"
    /\ \E i \in 1..Len(global_data) :
          /\ global_data[i].LAND_AREA # NaN
          /\ IsFinite(global_data[i].POPULATION_DENSITY)
          /\ global_data[i].POPULATION_DENSITY # FloatZero

\* C15 as stated: once the exclusion has run, every merge into the world table has
\* already run, and no merge runs after the exclusion.
C15_ExcludeAfterAllMerges ==
    \A p \in 1..Len(hist) :
        hist[p] = "exclude" =>
            /\ \A m \in MergeSteps : \E q \in 1..p - 1 : hist[q] = m
            /\ \A q \in p + 1..Len(hist) : hist[q] \notin MergeSteps

\* C15 amended: the exclusion runs after the two GDP merges (country_gdp, then the
\* re-imported gdp_df_update) and before the land-area merge, which is the only
\* merge into the world table that runs after it.
C15_ExcludeBetweenMerges ==
    /\ \A p \in 1..Len(hist) :
          hist[p] = "exclude" =>
              /\ \E q \in 1..p - 1 : hist[q] = "merge_gdp"
              /\ \E q \in 1..p - 1 : hist[q] = "gdp_replace"
              /\ \A q \in 1..p - 1 : hist[q] # "merge_area"
              /\ \A q \in p + 1..Len(hist) :
                    hist[q] \in MergeSteps => hist[q] = "merge_area"
    /\ pc = "done" =>
          \E p, q \in 1..Len(hist) :
              p < q /\ hist[p] = "exclude" /\ hist[q] = "merge_area"

\* a run in which ships were dropped and the land-area merge then gave a value to
\* a remaining row
C15_Witness ==
    /\ pc = "done"
    /\ \E p \in 1..Len(hist) : hist[p] = "exclude"
    /\ \E i \in 1..Len(global_data) : global_data[i].LAND_AREA # NaN

ExcludeDone == \E p \in 1..Len(hist) : hist[p] = "exclude"

\* the world table as it was when the exclusion started: the result of the merge
\* of the re-imported GDP table
BeforeExclude == Merge(base_before, aux_used, "COUNTRY", {"GDP_PER_CAPITA"})

\* C14: after the exclusion step and in every later state of the world table no
\* row is keyed "Diamond Princess" or "MS Zaandam", and the exclusion keeps every
\* other row that was in the table before it, in order.
C14_ShipsStayExcluded ==
    /\ (ExcludeDone /\ pc # "failed") =>
          \A i \in 1..Len(global_data) : global_data[i].COUNTRY \notin Excluded
    /\ (last = "exclude" /\ pc # "failed") =>
          LET keep == SelectIdx(BeforeExclude, LAMBDA r : r.COUNTRY \notin Excluded, 1)
          IN global_data = [n \in 1..Len(keep) |-> BeforeExclude[keep[n]]]

\* C16: when the re-imported table is the exported COUNTRY/GDP_PER_CAPITA report
\* with its nulls corrected, the drop-and-merge leaves the world table with the
\* same rows, every GDP_PER_CAPITA cell that was null filled, every cell that was
\* not null unchanged, and every other column unchanged.
C16_RoundTripFillsNulls ==
    (last = "gdp_replace" /\ gdp_df_update = Corrected(gdp_entry)) =>
        /\ Len(global_data) = Len(base_before)
        /\ \A i \in 1..Len(global_data) :
              /\ BasePart(global_data[i]) = base_before[i]
              /\ gdp_entry[i].GDP_PER_CAPITA = NaN => global_data[i].GDP_PER_CAPITA # NaN
              /\ gdp_entry[i].GDP_PER_CAPITA # NaN =>
                    global_data[i].GDP_PER_CAPITA = gdp_entry[i].GDP_PER_CAPITA

ScenarioInput ==
    /\ Len(RawDataRows) = 2
    /\ RawDataRows[1].COUNTRY = "USA" /\ RawDataRows[1].TOTALCASES = "10"
    /\ RawDataRows[2].COUNTRY = "UK" /\ RawDataRows[2].TOTALCASES = "5"
    /\ country_gdp = << GdpRow("United States", Num(60000)) >>

\* C18: for the scenario input, after the alias replacement and the left merge of
\* the GDP table the world table is, in this order, ("United States", 10, 60000),
\* ("United Kingdom", 5, null).
C18_ScenarioResult ==
    (ScenarioInput /\ last = "merge_gdp") =>
        [i \in 1..Len(global_data) |->
            <<global_data[i].COUNTRY, global_data[i].TOTALCASES,
              global_data[i].GDP_PER_CAPITA>>]
        = << <<"United States", Num(10), Num(60000)>>,
             <<"United Kingdom", Num(5), NaN>> >>

\* the scenario has been run through the GDP merge
C18_Witness ==
    /\ ScenarioInput
    /\ last = "merge_gdp" /\ pc # "failed"
    /\ Len(global_data) = 2
    /\ global_data[2].COUNTRY = "United Kingdom" /\ global_data[2].GDP_PER_CAPITA = NaN

Contains(s, ch) == \E i \in 1..Len(s) : SubSeq(s, i, i) = ch

\* the four cleaning steps of a cell as described: newlines removed, then commas,
\* then leading "+", then surrounding whitespace
CleanedAsDescribed(s) == StrStrip(LStrip(RemoveChar(RemoveChar(s, "\n"), ","), {"+"}))

\* C19: after the cleaning of the scraped world table every kept cell is free of
\* newlines and commas, has no leading "+" and no surrounding whitespace, and is
\* otherwise the scraped text (a "+" that is not leading is kept).
C19_CleanCellOrder ==
    (last = "format" /\ pc # "failed") =>
        \A i \in 1..Len(global_data) : \A c \in DOMAIN global_data[i] :
            LET out == global_data[i][c] IN
            /\ ~Contains(out, "\n") /\ ~Contains(out, ",")
            /\ out = LStrip(out, {"+"})
            /\ out = StrStrip(out)
            /\ out = CleanedAsDescribed(RawDataRows[i][c])

\* C20: normalization of the US table gets past the rename, drop and conversion
\* statements only if every column they name is there: each name to be renamed or
\* dropped is a column of the scraped table, and each name to be converted is a
\* column after the renames.  (An absent declared column means failure.)
C20_AbsentColumnFails ==
    USCoerced_Done =>
        /\ Sources(us_renames) \subseteq Range(us_headers)
        /\ us_drops \subseteq Range(us_headers)
        /\ us_numeric \subseteq Range(us_columns)

\* C21: once the scraped US table exists, no step changes its column names, rows
\* or cells, and no step leaves the working table bound to the same object as
\* the scraped table.
C21_RawTableFrozen ==
    [][raw_data2' = raw_data2 /\ us_headers' = us_headers /\ ~us_shared']_vars

\* step a has run before every run of step b
Before(a, b) ==
    \A q \in 1..Len(hist) : hist[q] = b => \E p \in 1..q - 1 : hist[p] = a

\* C22 as stated: no derived metric of the world table is computed before the
\* last merge into that table has run.
C22_MetricsAfterLastMerge ==
    \A p \in 1..Len(hist) :
        hist[p] \in MetricSteps => \A m \in MergeSteps : \E q \in 1..p - 1 : hist[q] = m

\* C22 amended: the world steps run in the order cleaning and row filter, alias
\* replacement, numeric coercion, merge of country_gdp, the three rates, merge of
\* gdp_df_update, exclusion, merge of country_area, POPULATION_DENSITY, each at
\* most once: the rates are computed after the first merge and before the other
\* two, only the density after the last.
C22_StageOrder ==
    /\ Before("format", "alias") /\ Before("alias", "coerce")
    /\ Before("coerce", "merge_gdp") /\ Before("merge_gdp", "metrics")
    /\ Before("metrics", "gdp_replace") /\ Before("gdp_replace", "exclude")
    /\ Before("exclude", "merge_area") /\ Before("merge_area", "density")
    /\ \A p, q \in 1..Len(hist) : p # q => hist[p] # hist[q]

\* a complete run: every step has run and the table has rows with all four
\* derived columns
C22_Witness ==
    /\ pc = "done"
    /\ Len(hist) = Len(cells)
    /\ global_data # <<>>
    /\ DerivedColumns \subseteq Columns(global_data)

\* the alias step of each joined table and the first join that uses the table
AliasThenJoin ==
    { <<"alias", "merge_gdp">>, <<"area_alias", "merge_area">>, <<"gdf1_alias", "geo_merge">> }

\* C23: for each table in a join, the alias replacements on its key column have all
\* run before the first join that uses it (global_data before the GDP merge,
\* country_area before the land-area merge, gdf1 before the shapefile merge), none
\* runs after it, and the world table enters the GDP merge with no alias spelling
C23_AliasesBeforeJoins ==
    /\ \A aj \in AliasThenJoin :
          /\ Before(aj[1], aj[2])
          /\ \A p, q \in 1..Len(hist) : (hist[p] = aj[2] /\ p < q) => hist[q] # aj[1]
    /\ last = "merge_gdp" => Keys(base_before, "COUNTRY") \cap Sources(global_aliases) = {}

C23_Witness ==
    /\ last = "geo_merge"
    /\ "Russia" \in Keys(gdf1, "COUNTRY")
    /\ "United States" \in Keys(global_data, "COUNTRY")
    /\ "Vatican City" \in Keys(country_area, "COUNTRY")
    /\ \E i \in 1..Len(geo_global_data) : geo_global_data[i].geometry # NaN

\* C24: after the GDP replacement the world table has the columns it had before
\* (one GDP_PER_CAPITA among them), each row's GDP_PER_CAPITA is the value the
\* replacement table gives for the row's key, null when the table has no such
\* key, and every other column is what it was before the replacement, row by row.
C24_GdpColumnReplaced ==
    last = "gdp_replace" =>
        /\ \A i \in 1..Len(global_data) :
              DOMAIN global_data[i] = DOMAIN base_before[1] \cup {"GDP_PER_CAPITA"}
        /\ Len(global_data) = Len(base_before)
        /\ \A i \in 1..Len(global_data) :
              /\ BasePart(global_data[i]) = base_before[i]
              /\ \A j \in 1..Len(gdp_df_update) :
                    gdp_df_update[j].COUNTRY = global_data[i].COUNTRY =>
                        global_data[i].GDP_PER_CAPITA = gdp_df_update[j].GDP_PER_CAPITA
              /\ global_data[i].COUNTRY \notin Keys(gdp_df_update, "COUNTRY") =>
                    global_data[i].GDP_PER_CAPITA = NaN

SortDone == \E p \in 1..Len(hist) : hist[p] = "sort"

Descending(t, k) == \A i, j \in 1..Len(t) : i < j => t[i][k][1] >= t[j][k][1]

\* C26: top_cases holds the ten rows of largest TOTALCASES among the rows of the
\* countries that are not excluded, largest first (all of them when there are
\* fewer than ten), and from the sort on every merge and the exclusion leave the
\* world table in descending order of TOTALCASES.
C26_TopCases ==
    /\ (SortDone /\ pc # "failed") => Descending(global_data, "TOTALCASES")
    /\ last = "top_cases" =>
          /\ Descending(top_cases, "TOTALCASES")
          /\ Len(top_cases) = (IF Len(global_data) > 10 THEN 10 ELSE Len(global_data))
          /\ \A i \in 1..Len(top_cases) : top_cases[i].COUNTRY \notin Excluded
          /\ \A i \in 1..Len(top_cases) : \E j \in 1..Len(global_data) :
                top_cases[i] = global_data[j]
          /\ \A j \in 1..Len(global_data) :
                \/ \E i \in 1..Len(top_cases) : top_cases[i] = global_data[j]
                \/ \A i \in 1..Len(top_cases) :
                      top_cases[i].TOTALCASES[1] >= global_data[j].TOTALCASES[1]

\* the world table has more than ten rows when top_cases is taken
C26_Cut == last = "top_cases" /\ Len(global_data) > 10

\* the world table's part of C27
C27_World ==
    (last = "geocode" /\ pc # "failed") =>
        /\ gindex = [i \in 1..Len(global_data) |-> i - 1]
        /\ Len(global_data) = Len(base_before)
        /\ \A i \in 1..Len(global_data) :
              /\ global_data[i].COUNTRY = base_before[i].COUNTRY
              /\ global_data[i].LAT = Geocode(global_data[i].COUNTRY).LAT
              /\ global_data[i].LONG = Geocode(global_data[i].COUNTRY).LONG

\* C27: at the join of the coordinates (world table and US table) the frame is
\* labelled 0 .. n-1, it has the rows it had before the join, and every row holds
\* the coordinates geocoded for its own key; no row is left without coordinates.
C27_CoordinatesByKey ==
    /\ C27_World
    /\ (last = "geocode" /\ pc # "failed") =>
          \A i \in 1..Len(global_data) : global_data[i].LAT # NaN /\ global_data[i].LONG # NaN
    /\ (ulast = "us_geocode" /\ upc # "failed") =>
          /\ uindex = [i \in 1..Len(us_data) |-> i - 1]
          /\ \A i \in 1..Len(us_data) :
                /\ us_data[i].LAT = Geocode(us_data[i].STATE).LAT
                /\ us_data[i].LONG = Geocode(us_data[i].STATE).LONG
                /\ us_data[i].LAT # NaN /\ us_data[i].LONG # NaN

C27_Witness ==
    /\ last = "geocode" /\ pc # "failed" /\ Len(global_data) >= 2
    /\ global_data[1].COUNTRY # global_data[2].COUNTRY
    /\ ulast = "us_geocode" /\ upc # "failed" /\ Len(us_data) >= 2
    /\ us_data[1].STATE # us_data[2].STATE

\* the geometries a shapefile table t lists under the key k
Listed(t, k) == { t[j].geometry : j \in {n \in 1..Len(t) : t[n].COUNTRY = k} } \ {NaN}

GeometriesOf(k) == Listed(gdf1, k) \cup Listed(gdf3, k) \cup Listed(shp_df, k)

\* C28: once geo_global_data has been updated from the second and the third
\* shapefile merge, the geometry of each row is one that a shapefile table lists
\* under the row's own COUNTRY key, and it is null only if no table lists a
\* geometry under that key; the tables may hold several rows for a country.
C28_GeometryOfOwnKey ==
    last = "geo_update3" =>
        \A i \in 1..Len(geo_global_data) :
            LET r == geo_global_data[i]
            IN IF r.geometry = NaN THEN GeometriesOf(r.COUNTRY) = {}
               ELSE r.geometry \in GeometriesOf(r.COUNTRY)

\* the cells the overrides of lines 1086-1116 name
OverrideColumns == {"TOTALRECOVERED", "ACTIVECASES", "SURVIVAL_RATE"}

\* C29: the manual overrides change only the cells they name (TOTALRECOVERED,
\* ACTIVECASES and SURVIVAL_RATE of the eight states; geometry and CODE of
\* 'District Of Columbia'): the table has the rows and the STATE keys it had
\* before, in the same order, and every other cell is as before, also when a
\* named state is not in the table.
C29_OverridesTouchNamedCells ==
    /\ (ulast = "us_override" /\ upc # "failed") =>
          /\ uindex = us_before.idx
          /\ Len(us_data) = Len(us_before.rows)
          /\ \A i \in 1..Len(us_data) : \A c \in DOMAIN us_data[i] :
                us_data[i][c] # us_before.rows[i][c] =>
                    uindex[i] \in Range(override_states) /\ c \in OverrideColumns
    /\ ulast = "us_dc" =>
          /\ Len(us_geodata) = Len(us_before.rows)
          /\ \A i \in 1..Len(us_geodata) :
                /\ us_geodata[i].STATE = us_before.idx[i]
                /\ \A c \in DOMAIN us_geodata[i] \ {"STATE"} :
                      us_geodata[i][c] # us_before.rows[i][c] =>
                          us_geodata[i].STATE = "District Of Columbia" /\ c \in {"geometry", "CODE"}

\* the overrides of lines 1086-1116 have run
OverrideDone ==
    \/ ulast = "us_override" /\ upc # "failed"
    \/ ulast \in {"us_reset", "us_geocode", "us_merge", "us_dc"}

\* C30: from the override step on, every row of the US table satisfies
\* SURVIVAL_RATE = TOTALRECOVERED / TOTALCASES (both null when the quotient is
\* undefined); the rows whose TOTALRECOVERED was replaced hold the recomputed rate.
C30_SurvivalRateConsistent ==
    OverrideDone =>
        \A i \in 1..Len(us_data) :
            us_data[i].SURVIVAL_RATE = Div(us_data[i].TOTALRECOVERED, us_data[i].TOTALCASES)

\* Hawaii's recovered count was null as scraped and has been replaced by 250,
\* its rate by 250 / 300
C30_Witness ==
    /\ ulast = "us_reset"
    /\ \E i \in 1..Len(us_data) :
          /\ us_data[i].STATE = "Hawaii"
          /\ us_data[i].TOTALRECOVERED = Num(250)
          /\ us_data[i].TOTALCASES = Num(300)
          /\ us_data[i].SURVIVAL_RATE = <<5, 6>>
    /\ \E i \in 1..Len(us_before.rows) :
          us_before.idx[i] = "Hawaii" /\ us_before.rows[i].TOTALRECOVERED = NaN

====
